---- MODULE Spec2Model ----
(***************************************************************************)
(* A model of create_cv.py: the markup normalizer simple_html_converter,   *)
(* the extractor scrape_data and the orchestrator create_pdf.              *)
(*                                                                         *)
(* Text that the program transforms character by character (the markup of  *)
(* a <p> or <td>, the href of the e-mail anchor) is a sequence of          *)
(* one-character strings.  Text that the program only copies (headings,    *)
(* titles, list items) is a pair <<kind, n>>.                              *)
(***************************************************************************)
EXTENDS Integers, Sequences, FiniteSets

(***************************************************************************)
(* Characters and the regular expressions of simple_html_converter.        *)
(***************************************************************************)
UpperCase == <<"A","B","C","D","E","F","G","H","I","J","K","L","M",
               "N","O","P","Q","R","S","T","U","V","W","X","Y","Z">>
LowerCase == <<"a","b","c","d","e","f","g","h","i","j","k","l","m",
               "n","o","p","q","r","s","t","u","v","w","x","y","z">>

\* re.IGNORECASE compares characters through their lower-case form.
Lower(c) ==
  IF \E i \in 1..26 : UpperCase[i] = c
  THEN LowerCase[CHOOSE i \in 1..26 : UpperCase[i] = c]
  ELSE c

\* \s of the patterns, and the characters str.strip() removes.
IsSpace(c) == c \in {" ", "\n", "\t", "\r"}

\* pat occurs in s at position i, character for character.
MatchAt(s, i, pat) ==
  /\ i >= 1
  /\ i + Len(pat) - 1 <= Len(s)
  /\ \A k \in 1..Len(pat) : s[i + k - 1] = pat[k]

\* pat (written in lower case) occurs in s at position i under re.IGNORECASE.
MatchAtCI(s, i, pat) ==
  /\ i >= 1
  /\ i + Len(pat) - 1 <= Len(s)
  /\ \A k \in 1..Len(pat) : Lower(s[i + k - 1]) = pat[k]

\* The end of the lazy ".*?c" started at position i: the first c at or after
\* i; without re.DOTALL "." does not cross a newline.  0: no match.
LazyUpTo(s, i, c, dotall) ==
  LET hits == {g \in i..Len(s) :
                 /\ s[g] = c
                 /\ dotall \/ \A k \in i..(g - 1) : s[k] # "\n"}
  IN IF hits = {} THEN 0 ELSE CHOOSE g \in hits : \A h \in hits : g <= h

\* The number of whitespace characters s starts with.
LeadingSpaces(s) ==
  LET stops == {k \in 1..Len(s) : ~IsSpace(s[k])}
  IN IF stops = {} THEN Len(s)
     ELSE (CHOOSE k \in stops : \A h \in stops : k <= h) - 1

\* The number of whitespace characters s ends with.
TrailingSpaces(s) ==
  LET stops == {k \in 1..Len(s) : ~IsSpace(s[k])}
  IN IF stops = {} THEN Len(s)
     ELSE Len(s) - (CHOOSE k \in stops : \A h \in stops : k >= h)

\* re.sub(r"^\s*<NAME.*?>", "", text, flags=re.IGNORECASE | re.DOTALL)
SubOpenTag(text, name) ==
  LET lt == LeadingSpaces(text) + 1
      g  == LazyUpTo(text, lt + 1 + Len(name), ">", TRUE)
  IN IF MatchAtCI(text, lt, <<"<">> \o name) /\ g # 0
     THEN SubSeq(text, g + 1, Len(text))
     ELSE text

\* re.sub(r"</NAME>\s*$", "", text, flags=re.IGNORECASE | re.DOTALL)
SubCloseTag(text, name) ==
  LET pat  == <<"<", "/">> \o name \o <<">">>
      hits == {i \in 1..Len(text) :
                 /\ MatchAtCI(text, i, pat)
                 /\ \A k \in (i + Len(pat))..Len(text) : IsSpace(text[k])}
  IN IF hits = {} THEN text
     ELSE SubSeq(text, 1, (CHOOSE i \in hits : \A h \in hits : i <= h) - 1)

\* str.replace(old, new): every non-overlapping occurrence, left to right.
RECURSIVE ReplaceFrom(_, _, _, _)
ReplaceFrom(s, i, old, new) ==
  IF i > Len(s) THEN <<>>
  ELSE IF MatchAt(s, i, old) THEN new \o ReplaceFrom(s, i + Len(old), old, new)
  ELSE <<s[i]>> \o ReplaceFrom(s, i + 1, old, new)

Replace(s, old, new) == ReplaceFrom(s, 1, old, new)

\* Where a match of r"</?span.*?>" (re.IGNORECASE) that starts at i ends; 0: none.
SpanMatchEnd(s, i) ==
  LET name == <<"s", "p", "a", "n">>
      body == IF MatchAt(s, i, <<"<", "/">>) /\ MatchAtCI(s, i + 2, name) THEN i + 6
              ELSE IF MatchAt(s, i, <<"<">>) /\ MatchAtCI(s, i + 1, name) THEN i + 5
              ELSE 0
  IN IF body = 0 THEN 0 ELSE LazyUpTo(s, body, ">", FALSE)

\* Where a match of r'style=".*?"' (re.IGNORECASE) that starts at i ends; 0: none.
StyleMatchEnd(s, i) ==
  IF MatchAtCI(s, i, <<"s", "t", "y", "l", "e", "=", "\"">>)
  THEN LazyUpTo(s, i + 7, "\"", FALSE)
  ELSE 0

\* re.sub(r"</?span.*?>", "", text, flags=re.IGNORECASE): one pass, left to
\* right, over the original text.
RECURSIVE SubSpanFrom(_, _)
SubSpanFrom(s, i) ==
  IF i > Len(s) THEN <<>>
  ELSE IF SpanMatchEnd(s, i) # 0 THEN SubSpanFrom(s, SpanMatchEnd(s, i) + 1)
  ELSE <<s[i]>> \o SubSpanFrom(s, i + 1)

SubSpan(text) == SubSpanFrom(text, 1)

\* re.sub(r'style=".*?"', "", text, flags=re.IGNORECASE)
RECURSIVE SubStyleFrom(_, _)
SubStyleFrom(s, i) ==
  IF i > Len(s) THEN <<>>
  ELSE IF StyleMatchEnd(s, i) # 0 THEN SubStyleFrom(s, StyleMatchEnd(s, i) + 1)
  ELSE <<s[i]>> \o SubStyleFrom(s, i + 1)

SubStyle(text) == SubStyleFrom(text, 1)

\* str.strip()
Strip(s) ==
  IF LeadingSpaces(s) = Len(s) THEN <<>>
  ELSE SubSeq(s, LeadingSpaces(s) + 1, Len(s) - TrailingSpaces(s))

(***************************************************************************)
(* Nodes.  A node is a record; None is the node whose tag is "None".       *)
(* str(node) is the node's serialization: its tag around its inner markup. *)
(***************************************************************************)
Text(kind, n) == <<kind, n>>

None == [tag |-> "None", id |-> "", cls |-> "", text |-> Text("", 0),
         href |-> <<>>, hasHref |-> FALSE, inner |-> <<>>, depth |-> 0]

Elem(tag, id, cls, text, inner, depth) ==
  [tag |-> tag, id |-> id, cls |-> cls, text |-> text,
   href |-> <<>>, hasHref |-> FALSE, inner |-> inner, depth |-> depth]

TagChars(tag) ==
  CASE tag = "p"  -> <<"p">>
    [] tag = "td" -> <<"t", "d">>
    [] OTHER      -> <<"x">>

\* str(text_node): "None" for None, a string as it is, the outer markup of a tag.
Str(text_node) ==
  IF text_node = None THEN <<"N", "o", "n", "e">>
  ELSE IF text_node.tag = "str" THEN text_node.inner
  ELSE <<"<">> \o TagChars(text_node.tag) \o <<">">> \o text_node.inner
       \o <<"<", "/">> \o TagChars(text_node.tag) \o <<">">>

simple_html_converter(text_node) ==
  LET t0 == Str(text_node)
      t1 == SubOpenTag(t0, <<"p">>)
      t2 == SubCloseTag(t1, <<"p">>)
      t3 == SubOpenTag(t2, <<"t", "d">>)
      t4 == SubCloseTag(t3, <<"t", "d">>)
      t5 == Replace(Replace(t4, <<"<","s","t","r","o","n","g",">">>, <<"<","b",">">>),
                    <<"<","/","s","t","r","o","n","g",">">>, <<"<","/","b",">">>)
      t6 == Replace(t5, <<"<","b","r",">">>, <<"<","b","r","/",">">>)
      t7 == SubSpan(t6)
      t8 == SubStyle(t7)
  IN Strip(t8)

(***************************************************************************)
(* The parsed document (soup): its elements in document order, each with   *)
(* its depth in the tree.  An element is referred to by its position; 0 is *)
(* None.  A search started from None raises AttributeError in the program; *)
(* here it yields None again, and the section that uses the value raises.  *)
(***************************************************************************)
Min(S) == CHOOSE x \in S : \A y \in S : x <= y

\* The last position of the subtree of element i.
SubtreeEnd(soup, i) ==
  LET ends == {j \in i..Len(soup) :
                 /\ \A k \in (i + 1)..j : soup[k].depth > soup[i].depth
                 /\ j = Len(soup) \/ soup[j + 1].depth <= soup[i].depth}
  IN Min(ends)

\* The filter of find(name, id=..., class_=..., string=...).
Matches(n, tag, attr, val) ==
  /\ n.tag = tag
  /\ CASE attr = "id"     -> n.id = val
       [] attr = "class"  -> n.cls = val
       [] attr = "string" -> n.text = val
       [] OTHER           -> TRUE

\* soup.find(...): the first matching element of the document.
soup_find(soup, tag, attr, val) ==
  LET hits == {j \in 1..Len(soup) : Matches(soup[j], tag, attr, val)}
  IN IF hits = {} THEN 0 ELSE Min(hits)

\* tag.find(...): the first matching descendant of element i.
find(soup, i, tag, attr, val) ==
  IF i = 0 THEN 0
  ELSE LET hits == {j \in (i + 1)..SubtreeEnd(soup, i) :
                      Matches(soup[j], tag, attr, val)}
       IN IF hits = {} THEN 0 ELSE Min(hits)

\* The members of a set of positions, in document order.
RECURSIVE InOrder(_)
InOrder(S) == IF S = {} THEN <<>> ELSE <<Min(S)>> \o InOrder(S \ {Min(S)})

\* tag.find_all(name): every matching descendant of element i, in document order.
find_all(soup, i, tag) ==
  IF i = 0 THEN <<>>
  ELSE InOrder({j \in (i + 1)..SubtreeEnd(soup, i) : soup[j].tag = tag})

\* tag.find_next(name): the first matching element after i in document order,
\* wherever in the document it is.
find_next(soup, i, tag) ==
  IF i = 0 THEN 0
  ELSE LET hits == {j \in (i + 1)..Len(soup) : soup[j].tag = tag}
       IN IF hits = {} THEN 0 ELSE Min(hits)

\* tag.find_next_sibling(name): the first matching sibling after i.
find_next_sibling(soup, i, tag) ==
  IF i = 0 THEN 0
  ELSE LET hits == {j \in (i + 1)..Len(soup) :
                      /\ soup[j].tag = tag
                      /\ soup[j].depth = soup[i].depth
                      /\ \A k \in i..j : soup[k].depth >= soup[i].depth}
       IN IF hits = {} THEN 0 ELSE Min(hits)

\* The element at a position; None at 0.
NodeAt(soup, i) == IF i = 0 THEN None ELSE soup[i]

\* tag.get_text(strip=True) of an element that holds one string.
get_text(soup, i) == soup[i].text

(***************************************************************************)
(* scrape_data.  Each section yields [exc, val]: exc when a statement of   *)
(* the section raises (a use of None, a missing href, a missing column).   *)
(***************************************************************************)
Raise == [exc |-> TRUE, val |-> <<>>]
Return(v) == [exc |-> FALSE, val |-> v]

MAILTO == <<"m", "a", "i", "l", "t", "o", ":">>

ScrapeTitle(soup) ==
  LET header_container == soup_find(soup, "div", "class", "container")
      span == find_next_sibling(soup, find(soup, header_container, "h1", "", ""), "span")
  IN IF span = 0 THEN Raise ELSE Return(get_text(soup, span))

\* contact_icons.find("a", class_=cls)["href"]
IconHref(soup, contact_icons, cls) ==
  LET a == find(soup, contact_icons, "a", "class", cls)
  IN IF a = 0 \/ ~soup[a].hasHref THEN Raise ELSE Return(soup[a].href)

ScrapeContact(soup) ==
  LET contact_icons == find(soup, soup_find(soup, "article", "id", "contact"),
                            "ul", "class", "icons")
      email    == IconHref(soup, contact_icons, "fa-envelope")
      linkedin == IconHref(soup, contact_icons, "fa-linkedin")
      github   == IconHref(soup, contact_icons, "fa-github")
  IN IF email.exc \/ linkedin.exc \/ github.exc THEN Raise
     ELSE Return([email    |-> Replace(email.val, MAILTO, <<>>),
                  linkedin |-> linkedin.val,
                  github   |-> github.val])

ScrapeSummary(soup) ==
  LET about_article == soup_find(soup, "article", "id", "about")
      quote == find(soup, about_article, "blockquote", "", "")
  IN IF quote = 0 THEN Raise ELSE Return(get_text(soup, quote))

\* The paragraph whose markup becomes the details of the project at heading h.
ProjectParagraph(soup, h) == find_next_sibling(soup, h, "p")

ScrapeProjects(soup) ==
  LET projects_article == soup_find(soup, "article", "id", "projects")
      hs == find_all(soup, projects_article, "h3")
  IN IF projects_article = 0 THEN Raise
     ELSE Return([k \in 1..Len(hs) |->
            [title   |-> get_text(soup, hs[k]),
             details |-> simple_html_converter(
                           NodeAt(soup, ProjectParagraph(soup, hs[k])))]])

\* about_article.find("h3", string=heading).find_next(tag)
AfterHeading(soup, heading, tag) ==
  LET about_article == soup_find(soup, "article", "id", "about")
  IN find_next(soup, find(soup, about_article, "h3", "string", heading), tag)

\* A variant of BodyRows that reads the rows of the whole table, header row included.
BodyRowsOfWholeTable(soup, table) == find_all(soup, table, "tr")

\* table.find("tbody").find_all("tr")
BodyRows(soup, table) == find_all(soup, find(soup, table, "tbody", "", ""), "tr")

\* The cells of every row; a row's cols[0], cols[1], cols[2] must exist.
RowCells(soup, rows) == [k \in 1..Len(rows) |-> find_all(soup, rows[k], "td")]

BR == <<"<", "b", "r", "/", ">">>

ScrapeExperience(soup) ==
  LET exp_table == AfterHeading(soup, Text("Experience", 0), "table")
      tbody == find(soup, exp_table, "tbody", "", "")
      rows  == BodyRows(soup, exp_table)
      cols  == RowCells(soup, rows)
  IN IF tbody = 0 \/ \E k \in 1..Len(rows) : Len(cols[k]) < 3 THEN Raise
     ELSE Return([k \in 1..Len(rows) |->
            [title    |-> get_text(soup, cols[k][1]),
             employer |-> Replace(simple_html_converter(soup[cols[k][2]]), BR, <<",", " ">>),
             duration |-> Replace(simple_html_converter(soup[cols[k][3]]), BR,
                                  <<" ", "-", " ">>)]])

ScrapeEducation(soup) ==
  LET edu_table == AfterHeading(soup, Text("Formal education", 0), "table")
      tbody == find(soup, edu_table, "tbody", "", "")
      rows  == BodyRows(soup, edu_table)
      cols  == RowCells(soup, rows)
  IN IF tbody = 0 \/ \E k \in 1..Len(rows) : Len(cols[k]) < 3 THEN Raise
     ELSE Return([k \in 1..Len(rows) |->
            [institution   |-> get_text(soup, cols[k][1]),
             qualification |-> get_text(soup, cols[k][2]),
             year          |-> get_text(soup, cols[k][3])]])

\* [li.get_text(strip=True) for li in lst.find_all("li")]
ListItems(soup, lst) ==
  LET lis == find_all(soup, lst, "li")
  IN [k \in 1..Len(lis) |-> get_text(soup, lis[k])]

ScrapeSkills(soup) ==
  LET skills_list == AfterHeading(soup, Text("Top 10 skills", 0), "ul")
  IN IF skills_list = 0 THEN Raise ELSE Return(ListItems(soup, skills_list))

ScrapeAchievements(soup) ==
  LET ach_list == AfterHeading(soup, Text("Recent achievements", 0), "ul")
  IN IF ach_list = 0 THEN Raise ELSE Return(ListItems(soup, ach_list))

\* What scrape_data returns when it catches an exception.
NoData == [ok |-> FALSE]

scrape_data(soup) ==
  LET title        == ScrapeTitle(soup)
      contact      == ScrapeContact(soup)
      summary      == ScrapeSummary(soup)
      projects     == ScrapeProjects(soup)
      experience   == ScrapeExperience(soup)
      education    == ScrapeEducation(soup)
      skills       == ScrapeSkills(soup)
      achievements == ScrapeAchievements(soup)
  IN IF \/ title.exc \/ contact.exc \/ summary.exc \/ projects.exc
        \/ experience.exc \/ education.exc \/ skills.exc \/ achievements.exc
     THEN NoData
     ELSE [ok |-> TRUE, name |-> Text("Rohan Posthumus", 0),
           title |-> title.val, contact |-> contact.val, summary |-> summary.val,
           projects |-> projects.val, experience |-> experience.val,
           education |-> education.val, skills |-> skills.val,
           achievements |-> achievements.val]

(***************************************************************************)
(* The source documents the model runs on.  A document has the layout the  *)
(* program expects (header, about, projects, contact), built from: which   *)
(* project headings have a paragraph, the number of rows and items of each *)
(* table and list, the inline markup of the rich-text fields, the href of  *)
(* the e-mail anchor, and at most one defect <<what, where>>.              *)
(***************************************************************************)
MaxItems == 2

Digit(r) == <<"0", "1", "2", "3", "4", "5", "6", "7", "8", "9">>[r + 1]

NoText == Text("", 0)

Anchor(cls, text, href, hasHref, depth) ==
  [tag |-> "a", id |-> "", cls |-> cls, text |-> text,
   href |-> href, hasHref |-> hasHref, inner |-> <<>>, depth |-> depth]

RECURSIVE Rows(_, _, _)
\* The body rows r..n of a table: three cells each (two with the defect short_row).
Rows(p, kind, r) ==
  IF r > p.n[kind] THEN <<>>
  ELSE <<Elem("tr", "", "", NoText, <<>>, 3),
         Elem("td", "", "", Text(kind, r), <<Digit(r)>>, 4),
         Elem("td", "", "", Text("second", r), p.frag \o BR \o <<Digit(r)>>, 4)>>
       \o (IF p.defect = <<"short_row", kind>> THEN <<>>
           ELSE <<Elem("td", "", "", Text("third", r), <<Digit(r)>> \o BR \o <<"n">>, 4)>>)
       \o Rows(p, kind, r + 1)

Table(p, kind) ==
  IF p.defect = <<"no_table", kind>> THEN <<>>
  ELSE <<Elem("table", "", "", NoText, <<>>, 1),
         Elem("thead", "", "", NoText, <<>>, 2),
         Elem("tr", "", "", NoText, <<>>, 3),
         Elem("th", "", "", Text("head", 0), <<>>, 4)>>
       \o (IF p.defect = <<"no_tbody", kind>> THEN <<>>
           ELSE <<Elem("tbody", "", "", NoText, <<>>, 2)>>)
       \o Rows(p, kind, 1)

RECURSIVE Items(_, _, _)
Items(p, kind, r) ==
  IF r > p.n[kind] THEN <<>>
  ELSE <<Elem("li", "", "", Text(kind, r), <<>>, 2)>> \o Items(p, kind, r + 1)

List(p, kind) ==
  IF p.defect = <<"no_list", kind>> THEN <<>>
  ELSE <<Elem("ul", "", "", NoText, <<>>, 1)>> \o Items(p, kind, 1)

HeadingText(kind) ==
  CASE kind = "exp"    -> "Experience"
    [] kind = "edu"    -> "Formal education"
    [] kind = "skills" -> "Top 10 skills"
    [] kind = "ach"    -> "Recent achievements"

\* The same heading in another letter case.
OtherCase(kind) ==
  CASE kind = "exp"    -> "experience"
    [] kind = "edu"    -> "Formal Education"
    [] kind = "skills" -> "Top 10 Skills"
    [] kind = "ach"    -> "RECENT ACHIEVEMENTS"

Heading(p, kind) ==
  IF p.defect = <<"no_heading", kind>> THEN <<>>
  ELSE IF p.defect = <<"other_case", kind>>
  THEN <<Elem("h3", "", "", Text(OtherCase(kind), 0), <<>>, 1)>>
  ELSE <<Elem("h3", "", "", Text(HeadingText(kind), 0), <<>>, 1)>>

HeaderPart(p) ==
  IF p.defect = <<"no_element", "container">> THEN <<>>
  ELSE <<Elem("div", "", "container", NoText, <<>>, 0)>>
       \o (IF p.defect = <<"no_element", "h1">> THEN <<>>
           ELSE <<Elem("h1", "", "", Text("name", 0), <<>>, 1)>>)
       \o (IF p.defect = <<"no_element", "title">> THEN <<>>
           ELSE <<Elem("span", "", "", Text("title", 0), <<>>, 1)>>)

AboutPart(p) ==
  IF p.defect = <<"no_element", "about">> THEN <<>>
  ELSE <<Elem("article", "about", "", NoText, <<>>, 0)>>
       \o (IF p.defect = <<"no_element", "blockquote">> THEN <<>>
           ELSE <<Elem("blockquote", "", "", Text("summary", 0), <<>>, 1)>>)
       \o Heading(p, "exp") \o Table(p, "exp")
       \o Heading(p, "edu") \o Table(p, "edu")
       \o Heading(p, "skills") \o List(p, "skills")
       \o Heading(p, "ach") \o List(p, "ach")

RECURSIVE ProjectNodes(_, _)
ProjectNodes(p, r) ==
  IF r > Len(p.projects) THEN <<>>
  ELSE <<Elem("h3", "", "", Text("project", r), <<>>, 1)>>
       \o (IF p.projects[r]
           THEN <<Elem("p", "", "", NoText, p.frag \o <<Digit(r)>>, 1)>>
           ELSE <<>>)
       \o ProjectNodes(p, r + 1)

ProjectsPart(p) ==
  IF p.defect = <<"no_element", "projects">> THEN <<>>
  ELSE <<Elem("article", "projects", "", NoText, <<>>, 0)>> \o ProjectNodes(p, 1)

Icon(p, cls, n, href) ==
  IF p.defect = <<"no_anchor", cls>> THEN <<>>
  ELSE <<Elem("li", "", "", Text("icon", n), <<>>, 2),
         Anchor(cls, Text("icon", n), href, p.defect # <<"no_href", cls>>, 3)>>

ContactPart(p) ==
  IF p.defect = <<"no_element", "contact">> THEN <<>>
  ELSE <<Elem("article", "contact", "", NoText, <<>>, 0)>>
       \o (IF p.defect = <<"no_element", "icons">> THEN <<>>
           ELSE <<Elem("ul", "", "icons", NoText, <<>>, 1)>>
                \o Icon(p, "fa-envelope", 1, p.href)
                \o Icon(p, "fa-linkedin", 2, <<"l">>)
                \o Icon(p, "fa-github", 3, <<"g">>))

MkDoc(p) == HeaderPart(p) \o AboutPart(p) \o ProjectsPart(p) \o ContactPart(p)

Kinds == {"exp", "edu", "skills", "ach"}

NoDefect == <<"none", "">>

Defects ==
  ({"no_heading", "other_case"} \X Kinds)
  \cup ({"no_table", "no_tbody", "short_row"} \X {"exp", "edu"})
  \cup ({"no_list"} \X {"skills", "ach"})
  \cup ({"no_element"} \X {"container", "h1", "title", "about", "blockquote",
                            "projects", "contact", "icons"})
  \cup ({"no_anchor"} \X {"fa-envelope", "fa-linkedin", "fa-github"})
  \cup ({"no_href"} \X {"fa-envelope", "fa-linkedin", "fa-github"})

PlainFrag == <<"a">>

Frags ==
  { PlainFrag,
    <<"<","s","t","r","o","n","g",">","a","<","/","s","t","r","o","n","g",">">>,
    <<"<","s","p","a","n"," ","s","t","y","l","e","=","\"","c","\"",">","a",
      "<","/","s","p","a","n",">">>,
    <<"<","e","m",">","a","<","/","e","m",">">>,
    <<"<","s","t","r","o","n","g"," ","c","l","a","s","s","=","\"","k","\"",">","a",
      "<","/","s","t","r","o","n","g",">">>,
    <<"<","b"," ","s","t","y","l","e","=","\"","c","\"",">","a","<","/","b",">">> }

PlainHref == MAILTO \o <<"r", "@", "x">>

Hrefs ==
  { PlainHref,
    <<"r", "@", "x">>,
    <<"M", "A", "I", "L", "T", "O", ":", "r", "@", "x">>,
    <<"m", "a", "i", "l">> \o MAILTO \o <<"t", "o", ":", "r", "@", "x">> }

ProjectShapes == UNION {[1..n -> BOOLEAN] : n \in 0..MaxItems}

Sizes == [Kinds -> 0..MaxItems]

OneEach == [k \in Kinds |-> 1]

\* The sections are extracted independently of each other, so each family
\* varies one part of the document: the table and list sizes, the projects and
\* their markup, the e-mail href, the defect.
Params ==
  [projects : {<<TRUE>>}, n : Sizes, frag : {PlainFrag}, href : {PlainHref},
   defect : {NoDefect}]
  \cup [projects : ProjectShapes, n : {OneEach}, frag : Frags, href : {PlainHref},
        defect : {NoDefect}]
  \cup [projects : {<<TRUE>>}, n : {OneEach}, frag : {PlainFrag}, href : Hrefs,
        defect : {NoDefect}]
  \cup [projects : {<<TRUE>>}, n : {OneEach}, frag : {PlainFrag},
        href : {PlainHref}, defect : Defects]

Docs == {MkDoc(p) : p \in Params}

(***************************************************************************)
(* create_pdf: one action per stage.  file is what is at HTML_FILE, pdf    *)
(* what is at PDF_FILE; calls counts the calls of pdfkit.from_string; out  *)
(* is what was printed; raised is the exception that left create_pdf.      *)
(***************************************************************************)
VARIABLES fragment, result, again, cpc,
          file, pc, soup, data, template, html_output, pdf, calls, out, raised

convVars == <<fragment, result, again, cpc>>

pipeVars == <<file, pc, soup, data, template, html_output, pdf, calls, out, raised>>

vars == <<convVars, pipeVars>>

NoFile == [kind |-> "missing", doc |-> <<>>]
Undecodable == [kind |-> "undecodable", doc |-> <<>>]
HtmlFile(doc) == [kind |-> "html", doc |-> doc]

Files == {NoFile, Undecodable} \cup {HtmlFile(d) : d \in Docs}

NoSoup == <<None>>
NoTemplate == "none"
NoHtml == [template |-> NoTemplate, data |-> NoData]
OldPdf == "old"

\* What env.get_template finds at TEMPLATE_FILE.
TemplateFiles == {"missing", "invalid", "good", "raises_on_render"}

\* How pdfkit.from_string ends.
BackendOutcomes == {"written", "no_executable", "io_error", "other_error"}

\* template.render(data)
Render(t, d) == [template |-> t, data |-> d]

\* A variant of Falsy under which create_pdf never stops after scrape_data.
FalsyNever(d) == FALSE

\* "if not data": None is falsy; a record with its keys is not.
Falsy(d) == d = NoData

PipeIdle ==
  /\ file = NoFile /\ pc = "idle" /\ soup = NoSoup /\ data = NoData
  /\ template = NoTemplate /\ html_output = NoHtml /\ pdf = OldPdf
  /\ calls = 0 /\ out = <<>> /\ raised = "none"

ConvIdle ==
  /\ fragment = None /\ result = <<>> /\ again = <<>> /\ cpc = "idle"

Init ==
  /\ file \in Files
  /\ pc = "read"
  /\ soup = NoSoup
  /\ data = NoData
  /\ template = NoTemplate
  /\ html_output = NoHtml
  /\ pdf = OldPdf
  /\ calls = 0
  /\ out = <<>>
  /\ raised = "none"
  /\ ConvIdle

\* Lines 128-134: open and parse HTML_FILE; only FileNotFoundError is caught.
ReadSource ==
  /\ pc = "read"
  /\ \/ /\ file.kind = "missing"
        /\ out' = out \o <<"Reading", "Error: Could not find">>
        /\ pc' = "done"
        /\ UNCHANGED <<soup, raised>>
     \/ /\ file.kind = "undecodable"
        /\ out' = out \o <<"Reading">>
        /\ raised' = "UnicodeDecodeError"
        /\ pc' = "done"
        /\ UNCHANGED soup
     \/ /\ file.kind = "html"
        /\ out' = out \o <<"Reading">>
        /\ soup' = file.doc
        /\ pc' = "scrape"
        /\ UNCHANGED raised
  /\ UNCHANGED <<file, data, template, html_output, pdf, calls, convVars>>

\* Lines 136-140, and the prints of scrape_data's handler (122-123).
ScrapeData ==
  /\ pc = "scrape"
  /\ data' = scrape_data(soup)
  /\ IF data' = NoData
     THEN out' = out \o <<"Scraping", "Error: Could not parse HTML", "Details">>
     ELSE out' = out \o <<"Scraping">>
  /\ pc' = IF Falsy(data') THEN "done" ELSE "load"
  /\ UNCHANGED <<file, soup, template, html_output, pdf, calls, raised, convVars>>

\* Lines 142-149: every exception of the template load is caught.
LoadTemplate ==
  /\ pc = "load"
  /\ \E t \in TemplateFiles :
       IF t \in {"missing", "invalid"}
       THEN /\ out' = out \o <<"Loading", "Error: Could not load template">>
            /\ pc' = "done"
            /\ UNCHANGED template
       ELSE /\ out' = out \o <<"Loading">>
            /\ template' = t
            /\ pc' = "render"
  /\ UNCHANGED <<file, soup, data, html_output, pdf, calls, raised, convVars>>

\* Lines 151-153: template.render(data) is outside every try.
RenderTemplate ==
  /\ pc = "render"
  /\ out' = out \o <<"Injecting">>
  /\ IF template = "raises_on_render"
     THEN /\ raised' = "TemplateError"
          /\ pc' = "done"
          /\ UNCHANGED html_output
     ELSE /\ html_output' = Render(template, data)
          /\ pc' = "pdf"
          /\ UNCHANGED raised
  /\ UNCHANGED <<file, soup, data, template, pdf, calls, convVars>>

\* Lines 155-185: the backend call and its handlers.
GeneratePdf ==
  /\ pc = "pdf"
  /\ calls' = calls + 1
  /\ \E b \in BackendOutcomes :
       CASE b = "written" ->
              /\ pdf' = html_output
              /\ out' = out \o <<"Generating", "Success! PDF created.">>
         [] b = "no_executable" ->
              /\ pdf' = pdf
              /\ out' = out \o <<"Generating", "--- PDFkit Error ---">>
         [] b = "io_error" ->
              /\ pdf' \in {pdf, "partial"}
              /\ out' = out \o <<"Generating", "Error: Could not build PDF.">>
         [] OTHER ->
              /\ pdf' \in {pdf, "partial"}
              /\ out' = out \o <<"Generating", "An unexpected error occurred">>
  /\ pc' = "done"
  /\ UNCHANGED <<file, soup, data, template, html_output, raised, convVars>>

\* One run of create_pdf is one pass through its stages.
create_pdf == ReadSource \/ ScrapeData \/ LoadTemplate \/ RenderTemplate \/ GeneratePdf

Next == create_pdf

Spec == Init /\ [][Next]_vars

(***************************************************************************)
(* The normalizer on its own: a fragment is normalized, and the result is  *)
(* normalized again.                                                       *)
(***************************************************************************)
MaxPieces == 3

Pieces ==
  { <<"<","p",">">>, <<"<","/","p",">">>, <<"<","t","d",">">>, <<"<","/","t","d",">">>,
    <<"<","s","t","r","o","n","g",">">>, <<"<","/","s","t","r","o","n","g",">">>,
    <<"<","b","r",">">>, <<"<","S","p","a","n"," ","i","d","=","\"","\n","\"",">">>,
    <<"<","s","p","a","n",">">>, <<"<","/","s","p","a","n",">">>,
    <<"<","s","p">>, <<"a","n",">">>,
    <<"s","t","y">>, <<"s","t","y","l","e","=","\"","\"">>, <<"l","e","=","\"","c","\"">>,
    <<"<","e","m",">">>, <<"a">>, <<" ">>, <<"\n">> }

RECURSIVE Concat(_)
Concat(ps) == IF ps = <<>> THEN <<>> ELSE Head(ps) \o Concat(Tail(ps))

Fragments ==
  {Concat(ps) : ps \in UNION {[1..n -> Pieces] : n \in 0..MaxPieces}}

StrNode(s) == Elem("str", "", "", Text("", 0), s, 0)

ConvInputs == {None} \cup {StrNode(s) : s \in Fragments}

ConvInit ==
  /\ fragment \in ConvInputs
  /\ result = <<>>
  /\ again = <<>>
  /\ cpc = "start"
  /\ PipeIdle

Normalize ==
  /\ cpc = "start"
  /\ result' = simple_html_converter(fragment)
  /\ cpc' = "normalized"
  /\ UNCHANGED <<fragment, again, pipeVars>>

Renormalize ==
  /\ cpc = "normalized"
  /\ again' = simple_html_converter(StrNode(result))
  /\ cpc' = "renormalized"
  /\ UNCHANGED <<fragment, result, pipeVars>>

ConvNext == Normalize \/ Renormalize

SpecConv == ConvInit /\ [][ConvNext]_vars

(***************************************************************************)
(* The structure of a document, read off the tree itself.  par is the      *)
(* document's parent map, which a claim computes once (\A par \in {...}).  *)
(***************************************************************************)
Max(S) == CHOOSE x \in S : \A y \in S : x >= y

\* The parent of element j; 0 for an element at the top of the document.
Parent(s, j) ==
  LET above == {k \in 1..(j - 1) : s[k].depth = s[j].depth - 1}
  IN IF above = {} THEN 0 ELSE Max(above)

\* The parent of every element.
ParentMap(s) == [j \in 1..Len(s) |-> Parent(s, j)]

\* The sibling immediately after element i; 0 when i is the last child.
NextSibling(s, par, i) ==
  LET later == {j \in (i + 1)..Len(s) : par[j] = par[i]}
  IN IF later = {} THEN 0 ELSE Min(later)

ChildrenOf(s, par, i, tag) == {j \in 1..Len(s) : s[j].tag = tag /\ par[j] = i}

Articles(s, id) == {j \in 1..Len(s) : s[j].tag = "article" /\ s[j].id = id}

\* The headings of the about article with exactly this text.
HeadingsNamed(s, par, kind) ==
  {j \in 1..Len(s) :
     /\ s[j].tag = "h3"
     /\ s[j].text = Text(HeadingText(kind), 0)
     /\ par[j] \in Articles(s, "about")}

BlockTag(kind) == IF kind \in {"exp", "edu"} THEN "table" ELSE "ul"

\* The table or list that belongs to a heading: the element right after it.
OwnBlocks(s, par, kind) ==
  {b \in {NextSibling(s, par, h) : h \in HeadingsNamed(s, par, kind)} \ {0} :
     s[b].tag = BlockTag(kind)}

\* The body rows of a table: the tr children of its tbody.
BodyRowsOf(s, par, table) ==
  {r \in 1..Len(s) :
     /\ s[r].tag = "tr"
     /\ par[r] # 0
     /\ s[par[r]].tag = "tbody"
     /\ par[par[r]] = table}

\* The anchors of a class in the icon list of the contact article.
IconAnchors(s, par, cls) ==
  {a \in 1..Len(s) :
     /\ s[a].tag = "a" /\ s[a].cls = cls
     /\ par[a] # 0 /\ par[par[a]] # 0
     /\ s[par[par[a]]].tag = "ul" /\ s[par[par[a]]].cls = "icons"
     /\ par[par[par[a]]] \in Articles(s, "contact")}

IconClasses == {"fa-envelope", "fa-linkedin", "fa-github"}

\* A required element is missing: a heading with the exact text, the table
\* or list of a heading, or a contact anchor.
RequiredMissing(s, par) ==
  \/ \E kind \in Kinds : HeadingsNamed(s, par, kind) = {}
  \/ \E kind \in Kinds : OwnBlocks(s, par, kind) = {}
  \/ \E cls \in IconClasses : IconAnchors(s, par, cls) = {}

\* The document has every element the extractor reads, where it expects it.
ExpectedStructure(s, par) ==
  /\ ~RequiredMissing(s, par)
  /\ \A kind \in Kinds : Cardinality(OwnBlocks(s, par, kind)) = 1
  /\ \A cls \in IconClasses : \A a \in IconAnchors(s, par, cls) : s[a].hasHref
  /\ \E d \in 1..Len(s) :
        /\ s[d].tag = "div" /\ s[d].cls = "container"
        /\ \E h \in ChildrenOf(s, par, d, "h1") :
             \E t \in ChildrenOf(s, par, d, "span") : h < t
  /\ \E a \in Articles(s, "about") : ChildrenOf(s, par, a, "blockquote") # {}
  /\ Articles(s, "projects") # {}
  /\ \A kind \in {"exp", "edu"} : \A t \in OwnBlocks(s, par, kind) :
        /\ ChildrenOf(s, par, t, "tbody") # {}
        /\ \A r \in BodyRowsOf(s, par, t) :
             Cardinality(ChildrenOf(s, par, r, "td")) = 3

\* The headings of the projects article.
ProjectHeadingSet(s, par) ==
  {h \in 1..Len(s) : s[h].tag = "h3" /\ par[h] \in Articles(s, "projects")}

\* The same, in document order.
ProjectHeadings(s, par) == InOrder(ProjectHeadingSet(s, par))

\* The texts of the elements of a set, in document order.
TextsOf(s, S) ==
  LET ord == InOrder(S)
  IN [k \in 1..Len(ord) |-> s[ord[k]].text]

\* The text of the first cell of every body row of the table of a heading.
FirstCells(s, par, kind) ==
  LET t    == CHOOSE b \in OwnBlocks(s, par, kind) : TRUE
      rows == InOrder(BodyRowsOf(s, par, t))
  IN [k \in 1..Len(rows) |-> s[Min(ChildrenOf(s, par, rows[k], "td"))].text]

\* The texts of the items of the list of a heading.
ItemsOf(s, par, kind) ==
  LET u   == CHOOSE b \in OwnBlocks(s, par, kind) : TRUE
  IN TextsOf(s, ChildrenOf(s, par, u, "li"))

Scraped == pc \in {"load", "render", "pdf", "done"} /\ soup # NoSoup

RecordKeys == {"ok", "name", "title", "contact", "summary", "projects",
               "experience", "education", "skills", "achievements"}

(***************************************************************************)
(* Claims.                                                                 *)
(***************************************************************************)

\* C1: pdfkit.from_string is called only after the source was read, a complete
\* record was scraped, the template was loaded and the HTML was rendered; on a
\* failure of any of these stages it is not called and PDF_FILE is untouched.
C1_WriteOnlyAfterAllStages ==
  /\ calls > 0 =>
       /\ file.kind = "html" /\ soup = file.doc
       /\ data # NoData /\ DOMAIN data = RecordKeys
       /\ template \in {"good", "raises_on_render"}
       /\ html_output = Render(template, data)
  /\ (\/ file.kind # "html" \/ soup = NoSoup
      \/ data = NoData
      \/ template = NoTemplate
      \/ html_output = NoHtml) => (calls = 0 /\ pdf = OldPdf)

C1_Written == calls = 1 /\ pc = "done" /\ pdf = html_output /\ data # NoData

\* C2: no exception leaves create_pdf, and a finished run has printed the
\* success message or an error message.
C2_NoExceptionPropagates ==
  /\ raised = "none"
  /\ pc = "done" =>
       out[Len(out)] \in {"Success! PDF created.", "Error: Could not find", "Details",
                          "Error: Could not load template", "--- PDFkit Error ---",
                          "Error: Could not build PDF.", "An unexpected error occurred"}

\* C3: normalizing the output of simple_html_converter again changes nothing.
C3_Idempotent == cpc = "renormalized" => again = result

HasSpanTag(s) ==
  \E i \in 1..Len(s) :
    /\ MatchAtCI(s, i, <<"<", "s", "p", "a", "n">>)
         \/ MatchAtCI(s, i, <<"<", "/", "s", "p", "a", "n">>)
    /\ \E g \in i..Len(s) : s[g] = ">"

HasStyleAttribute(s) ==
  \E i \in 1..Len(s) :
    /\ MatchAtCI(s, i, <<"s", "t", "y", "l", "e", "=", "\"">>)
    /\ \E g \in (i + 7)..Len(s) : s[g] = "\""

\* C4: the output of simple_html_converter holds no style="..." and no
\* opening or closing span tag.
C4_NoStyleNoSpan ==
  cpc \in {"normalized", "renormalized"} =>
    ~HasSpanTag(result) /\ ~HasStyleAttribute(result)

\* The details of the k-th project of the record.
Details(k) == data.projects[k].details

\* C5: a project heading with no following sibling paragraph gets the empty
\* string as its details (simple_html_converter of an absent node is "").
C5_AbsentNodeGivesEmpty ==
  (Scraped /\ data # NoData) =>
    \A par \in {ParentMap(soup)} : \A hs \in {ProjectHeadings(soup, par)} :
       \A k \in 1..Len(hs) :
         (\A q \in ChildrenOf(soup, par, par[hs[k]], "p") : q < hs[k]) => Details(k) = <<>>

\* C6: contact.email of a returned record does not start with a mailto:
\* scheme prefix, in whatever letter case.
C6_EmailHasNoScheme ==
  (Scraped /\ data # NoData) => ~MatchAtCI(data.contact.email, 1, MAILTO)

\* C7: when a required element is missing from the document, scrape_data
\* returns no record and create_pdf stops without calling the backend.
C7_MissingElementFails ==
  Scraped =>
    \A par \in {ParentMap(soup)} :
      RequiredMissing(soup, par) => (data = NoData /\ pc = "done" /\ calls = 0)

\* C8: for a document of the expected structure a record is returned, and each
\* sequence field has one entry per matching source element, in document order
\* (an empty sequence when there is none).
C8_SequencesMatchSource ==
  Scraped =>
    \A par \in {ParentMap(soup)} :
      ExpectedStructure(soup, par) =>
        /\ data # NoData
        /\ [k \in 1..Len(data.projects) |-> data.projects[k].title]
             = TextsOf(soup, ProjectHeadingSet(soup, par))
        /\ [k \in 1..Len(data.experience) |-> data.experience[k].title]
             = FirstCells(soup, par, "exp")
        /\ [k \in 1..Len(data.education) |-> data.education[k].institution]
             = FirstCells(soup, par, "edu")
        /\ data.skills = ItemsOf(soup, par, "skills")
        /\ data.achievements = ItemsOf(soup, par, "ach")

C8_FullAndEmpty ==
  /\ Scraped /\ ExpectedStructure(soup, ParentMap(soup)) /\ data # NoData
  /\ Len(data.projects) = 1 /\ Len(data.experience) = 2 /\ Len(data.education) = 1
  /\ data.skills = <<>> /\ Len(data.achievements) = 2

\* The tag that starts at position i of s has this name.
TagNamed(s, i, name) ==
  LET after == IF MatchAt(s, i, <<"<", "/">>) THEN i + 2 ELSE i + 1
  IN /\ MatchAt(s, after, name)
     /\ after + Len(name) <= Len(s)
     /\ s[after + Len(name)] \in {" ", "/", ">"}

\* Every tag of s is a b or a br tag, and s holds no style or class attribute.
Restricted(s) ==
  /\ \A i \in 1..Len(s) :
       s[i] = "<" => TagNamed(s, i, <<"b">>) \/ TagNamed(s, i, <<"b", "r">>)
  /\ \A i \in 1..Len(s) :
       /\ ~MatchAtCI(s, i, <<"s", "t", "y", "l", "e", "=">>)
       /\ ~MatchAtCI(s, i, <<"c", "l", "a", "s", "s", "=">>)

\* C9: the normalized markup fields of a returned record (project details,
\* experience employer and duration) hold only <b> and <br/> tags and no style
\* or class attribute.
C9_RestrictedVocabulary ==
  (Scraped /\ data # NoData) =>
    /\ \A k \in 1..Len(data.projects) : Restricted(Details(k))
    /\ \A k \in 1..Len(data.experience) :
         Restricted(data.experience[k].employer) /\ Restricted(data.experience[k].duration)

\* C10: the details of a project are the normalized paragraph that is the
\* sibling immediately after its heading (the normalized absent node when that
\* sibling is no paragraph), never a paragraph further on.
C10_DetailsFromImmediateSibling ==
  (Scraped /\ data # NoData) =>
    \A par \in {ParentMap(soup)} : \A hs \in {ProjectHeadings(soup, par)} :
       \A k \in 1..Len(hs) :
         LET nx == NextSibling(soup, par, hs[k])
         IN Details(k) = simple_html_converter(
                           IF nx # 0 /\ soup[nx].tag = "p" THEN soup[nx] ELSE None)

====
